---- MODULE Spec2Model ----
(***************************************************************************)
(* The ordered-dithering post effect (DitheringEffect.ts) and the pose     *)
(* animator of the hand view (HandModel.tsx).                              *)
(*                                                                         *)
(* Numbers.  The code computes in IEEE doubles (TypeScript) and GLSL       *)
(* floats; the model computes in exact fixed point:                        *)
(*   - gridSize and pixelSizeRatio in halves (4.0 is 8), the step of the   *)
(*     control panel; block coordinates in quarters of a pixel;            *)
(*   - colour channels in units of 1/ColorOne, ColorOne = 255*32*1000, so  *)
(*     that n/255, the Bayer thresholds (2m+1)/32 and the luminance        *)
(*     weights 0.299, 0.587, 0.114 of a channel that is a multiple of      *)
(*     1/8160 are all exact; alpha in tenths;                              *)
(*   - the shake intensity in units of 1/ShakeOne.                         *)
(***************************************************************************)
EXTENDS Integers, Sequences, FiniteSets, TLC

Max(a, b) == IF a >= b THEN a ELSE b
Min(a, b) == IF a <= b THEN a ELSE b

(***************************************************************************)
(* Optional values.  An optional argument or option is a tagged record:    *)
(* Undef (omitted), Nil (null) or Some(v).  A nullable reference or colour *)
(* is a sequence: <<>> for null, <<v>> for a reference, <<r, g, b>> for a  *)
(* colour.                                                                 *)
(***************************************************************************)
Undef == [k |-> "undefined"]
Nil == [k |-> "null"]
Some(v) == [k |-> "some", v |-> v]
Null == <<>>

(***************************************************************************)
(* DitheringEffect.ts: program constants                                   *)
(***************************************************************************)
ColorOne == 8160000
GridMin == 2
GridMax == 40
RatioMin == 2
RatioMax == 20
DefaultGridSize == 8
DefaultPixelSizeRatio == 2
AlphaGate == 2
Black == <<0, 0, 0>>
White == <<ColorOne, ColorOne, ColorOne>>

(***************************************************************************)
(* Inputs of the effect: constructor options, setter arguments, fragments  *)
(***************************************************************************)
Grey == <<4080000, 4080000, 4080000>>
Navy == <<960000, 1856000, 4416000>>
GridArgs == {-10, 3, 1998}
RatioArgs == {-10, 8, 1998}
GridOpts == {Undef, Some(4), Some(100)}
RatioOpts == {Undef, Some(4), Some(60)}
BoolOpts == {Undef, Some(TRUE), Some(FALSE)}
DarkOpts == {Undef, Some(Navy)}
LightOpts == {Undef, Nil, Some(Grey)}
DarkArgs == {Navy}
LightArgs == {Null, Grey}
Sizes == {<<8, 4>>, <<16, 8>>}
Opaque(rgb) == <<rgb[1], rgb[2], rgb[3], 10>>
Faint(rgb) == <<rgb[1], rgb[2], rgb[3], 1>>
Sheer(rgb) == <<rgb[1], rgb[2], rgb[3], 5>>
\* greys whose luminance is exactly a Bayer threshold (cells (2,2), (1,1), (3,3)), one
\* unit of 1/8160 above it, and a saturated colour
GreyAt(n) == <<n * 1000, n * 1000, n * 1000>>
Orange == <<8160000, 4080000, 0>>
InputColors == {Opaque(Orange), Faint(Orange), Sheer(GreyAt(765))}
BaseColors == {Opaque(GreyAt(765)), Opaque(GreyAt(766)), Opaque(GreyAt(2295)),
               Opaque(GreyAt(2805)), Sheer(Orange), Faint(GreyAt(8160)), Opaque(Orange)}
\* uv of the centre of pixel (px, py) of a target of width W and height H
Centre(px, py, W, H) == <<[n |-> 2 * px + 1, d |-> 2 * W], [n |-> 2 * py + 1, d |-> 2 * H]>>
Probes ==
    {[inputColor |-> Opaque(Orange), baseColor |-> b, uv |-> Centre(2, 2, 8, 4)] :
        b \in {Opaque(Orange), Opaque(GreyAt(766))}}
Fragments ==
    {[inputColor |-> i, baseColor |-> b, uv |-> Centre(px, py, 8, 4)] :
        i \in InputColors, b \in BaseColors, px \in 0 .. 3, py \in 0 .. 3}
Uniforms ==
    [gridSize : {2, 3, 4, 8}, pixelSizeRatio : {2, 3, 4, 8}, grayscaleOnly : BOOLEAN,
     ditheringEnabled : BOOLEAN, invertColor : BOOLEAN, useCustomLightColor : BOOLEAN,
     colorDark : {Navy}, colorLight : {White, Grey}, resolution : Sizes]

VARIABLES
    \* the effect: its uniforms, its last call, the light colours supplied, an invocation
    fx, call, lights, shot,
    \* the view: lifecycle, props, loader, scene
    phase, props, load, model, scene, baseScale, gl, rafs, frameId, listeners,
    \* the view: refs, React state, panel parameters
    sliders, state, params, cursor, cursorSmoothed, isDragging, controlsEnabled,
    tiltStrength, time, isShaking, shakeIntensity,
    \* the session's budget, what was used of it, frames since the last click
    limits, used, shakeAge,
    \* the container's size, the canvas in it, the GPU resources acquired and released,
    \* the texture loads, the number of frame updates run
    container, canvas, acquired, released, textures, material, warnings, panel, hover, frames

(***************************************************************************)
(* HandModel.tsx: program constants.  Angles in milliradians, lengths and  *)
(* scales in hundredths, the cursor in thousandths, the tilt strength in   *)
(* ten-thousandths, the lerp factors in percent.                           *)
(***************************************************************************)
ShakeOne == 10000000
ShakeDecay == 92
ShakeEpsilon == 100000
CURSOR_TILT_STRENGTH == 1200
DRAG_TILT_STRENGTH == 4000
CURSOR_LERP == 8
DRAG_LERP == 18
TILT_STRENGTH_LERP == 12
FrameMs == 16
CursorOne == 1000
\* the proximity-hover variant: proximities in ten-thousandths
ProximityOne == 10000
PROXIMITY_THRESHOLD == 400
\* in percent
PROXIMITY_SMOOTHING == 3
\* newProximity < 0.8
NearProximity == 8000
\* the window of the hover variant and the pointer positions tried in it: on the model's
\* centre, 200 px and 500 px away from it, and at the left edge
HoverWindow == <<1600, 800>>
HoverPointers == {<<1200, 400>>, <<1200, 200>>, <<1500, 800>>, <<0, 400>>}
INIT_SCALE == 90
TARGET_SIZE == 180
\* (valueDeg * Math.PI) / 180
Rad(deg) == (deg * 3141593) \div 180000
INIT_POS == [x |-> 55, y |-> -60, z |-> 65]
INIT_ROT == [x |-> 0, y |-> Rad(-8), z |-> 0]
INIT_ROT_DEG == [x |-> 0, y |-> -8, z |-> 0]
DEFAULT_DARK_RGB == <<960000, 1856000, 4416000>>
DEFAULT_LIGHT_RGB == <<7360000, 7584000, 7904000>>
\* c / 255 and Math.round(c * 255) of a channel
FromByte(c) == <<c[1] * (ColorOne \div 255), c[2] * (ColorOne \div 255), c[3] * (ColorOne \div 255)>>
ToByte(c) ==
    <<(c[1] * 255 + ColorOne \div 2) \div ColorOne, (c[2] * 255 + ColorOne \div 2) \div ColorOne,
      (c[3] * 255 + ColorOne \div 2) \div ColorOne>>
Lights == {"ambient", "key", "fill", "rim", "overhead", "sideFill", "topSpotlight"}
Listeners == {"mousemove", "mousedown", "mouseup", "click", "resize"}
\* the GPU resources the mount effect creates, and those the composer disposes with itself
MountResources ==
    {"renderer", "composer", "renderPass", "effectPass", "ditheringEffect", "groundGeometry",
     "groundMaterial"}
ComposerOwned == {"composer", "renderPass", "effectPass", "ditheringEffect"}
\* the meshes of the loaded scene: the hand, and the bullet the success callback removes
GltfResources == {"modelGeometry", "modelMaterial", "bulletGeometry", "bulletMaterial"}
BulletResources == {"bulletGeometry", "bulletMaterial"}
PlaceholderResources ==
    {"palmGeometry", "fingerGeometry", "thumbGeometry", "placeholderMaterial"}
TOWEL_TEXTURES == {"color", "normal", "roughness", "ao"}
NoTextures == [t \in TOWEL_TEXTURES |-> "none"]

(***************************************************************************)
(* Bounds and inputs of the view                                           *)
(***************************************************************************)
\* a shake session: clicks and frames only, long enough for a shake to die out;
\* a control session: every event, a few frames; a teardown session: a shorter one that
\* the unmount may end at any point
ShakeFrames == 60
ShakeClicks == 2
MaxFrames == 2
MaxClicks == 1
MaxInputs == 2
TeardownFrames == 2
TeardownInputs == 1
MaxToggles == 6
PanelInputs == 2
HoverFrames == 12
ShakeSession == [frames |-> ShakeFrames, clicks |-> ShakeClicks, inputs |-> 0, teardown |-> FALSE]
ControlSession ==
    [frames |-> MaxFrames, clicks |-> MaxClicks, inputs |-> MaxInputs, teardown |-> FALSE]
TeardownSession ==
    [frames |-> TeardownFrames, clicks |-> MaxClicks, inputs |-> TeardownInputs,
     teardown |-> TRUE]
Sessions == {ShakeSession, ControlSession, TeardownSession}
\* a panel session: the toggle button, its timer and the colour bindings, from the mount
\* to the unmount
PanelSession == [frames |-> 1, clicks |-> 0, inputs |-> PanelInputs, teardown |-> TRUE]
NoProps == [ditherColorDark |-> Undef, ditherColorLight |-> Undef]
Props == [ditherColorDark : {Undef}, ditherColorLight : {Undef, Some(Grey)}]
\* the pointer at the top left corner, right of the window, and at three quarters
Pointers(w) == {<<0, 0>>, <<2 * w[1], w[2] \div 2>>}
Degrees == {90}
ScaleSteps == {150, 200}
PositionSteps == {-100}
GridSteps == {3}
RatioSteps == {8}
Swatches == {<<0, 0, 0>>}
MaxDims == {200}

hmVars ==
    <<phase, props, load, model, scene, baseScale, sliders, state, params, cursor,
      cursorSmoothed, isDragging, controlsEnabled, tiltStrength, time, isShaking,
      shakeIntensity, gl, rafs, frameId, listeners, limits, used, shakeAge, container,
      canvas, acquired, released, textures, material, warnings, panel, hover, frames>>
vars == <<fx, call, lights, shot, hmVars>>

(***************************************************************************)
(* DitheringEffect: constructor, setters, getters                          *)
(***************************************************************************)
Coalesce(o, d) == IF o.k = "some" THEN o.v ELSE d
NotNullish(o) == o.k = "some"

DitheringEffect(options, window) ==
    [gridSize            |-> Coalesce(options.gridSize, DefaultGridSize),
     pixelSizeRatio      |-> Coalesce(options.pixelSizeRatio, DefaultPixelSizeRatio),
     grayscaleOnly       |-> Coalesce(options.grayscaleOnly, FALSE),
     ditheringEnabled    |-> Coalesce(options.ditheringEnabled, TRUE),
     invertColor         |-> Coalesce(options.invertColor, FALSE),
     useCustomLightColor |-> NotNullish(options.colorLight),
     colorDark           |-> Coalesce(options.colorDark, Black),
     colorLight          |-> Coalesce(options.colorLight, White),
     resolution          |-> window]

\* the lower clamp forgotten
setGridSizeNoFloor(u, size) == [u EXCEPT !.gridSize = Min(GridMax, size)]

setGridSize(u, size) == [u EXCEPT !.gridSize = Max(GridMin, Min(GridMax, size))]

setPixelSizeRatio(u, ratio) ==
    [u EXCEPT !.pixelSizeRatio = Max(RatioMin, Min(RatioMax, ratio))]

setGrayscaleOnly(u, grayscale) == [u EXCEPT !.grayscaleOnly = grayscale]

setDitheringEnabled(u, enabled) == [u EXCEPT !.ditheringEnabled = enabled]

setInvertColor(u, invert) == [u EXCEPT !.invertColor = invert]

setResolution(u, width, height) == [u EXCEPT !.resolution = <<width, height>>]

setColorDark(u, rgb) == [u EXCEPT !.colorDark = rgb]

\* null leaves the flag as it was
setColorLightKeepsFlag(u, rgb) ==
    IF rgb # Null THEN [u EXCEPT !.useCustomLightColor = TRUE, !.colorLight = rgb] ELSE u

setColorLight(u, rgb) ==
    [u EXCEPT !.useCustomLightColor = (rgb # Null),
              !.colorLight = IF rgb # Null THEN rgb ELSE @]

setColors(u, dark, light) == setColorLight(setColorDark(u, dark), Coalesce(light, Null))

(***************************************************************************)
(* FRAGMENT_SHADER                                                         *)
(***************************************************************************)
bayerValue(px, py) ==
    IF px = 0 /\ py = 0 THEN 0
    ELSE IF px = 1 /\ py = 0 THEN 8
    ELSE IF px = 2 /\ py = 0 THEN 2
    ELSE IF px = 3 /\ py = 0 THEN 10
    ELSE IF px = 0 /\ py = 1 THEN 12
    ELSE IF px = 1 /\ py = 1 THEN 4
    ELSE IF px = 2 /\ py = 1 THEN 14
    ELSE IF px = 3 /\ py = 1 THEN 6
    ELSE IF px = 0 /\ py = 2 THEN 3
    ELSE IF px = 1 /\ py = 2 THEN 11
    ELSE IF px = 2 /\ py = 2 THEN 1
    ELSE IF px = 3 /\ py = 2 THEN 9
    ELSE IF px = 0 /\ py = 3 THEN 15
    ELSE IF px = 1 /\ py = 3 THEN 7
    ELSE IF px = 2 /\ py = 3 THEN 13
    ELSE IF px = 3 /\ py = 3 THEN 5
    ELSE 0

\* floor(mod(pos, 4.0)): the division by gridSize left out
pixelIgnoresGrid(pos, gridSize) ==
    <<(pos[1] \div 4) % 4, (pos[2] \div 4) % 4>>

\* floor(mod(pos / gridSize, 4.0)): pos in quarters of a pixel, gridSize in halves
pixel(pos, gridSize) ==
    <<(pos[1] \div (2 * gridSize)) % 4, (pos[2] \div (2 * gridSize)) % 4>>

\* (bayerValue + 0.5) / 16.0, in units of 1/ColorOne
threshold(bayer) == ((2 * bayer + 1) * ColorOne) \div 32

\* >= for >
brighterOrEqual(brightness, limit) == brightness >= limit

brighter(brightness, limit) == brightness > limit

getValue(brightness, pos, gridSize) ==
    LET p == pixel(pos, gridSize)
    IN  brighter(brightness, threshold(bayerValue(p[1], p[2])))

\* gridSize * pixelSizeRatio, in quarters of a pixel
pixelSize(u) == u.gridSize * u.pixelSizeRatio

\* floor(uv * resolution / pixelSize) * pixelSize, in quarters of a pixel
pixelatedCoord(u, uv) ==
    LET blockX == (4 * uv[1].n * u.resolution[1]) \div (uv[1].d * pixelSize(u))
        blockY == (4 * uv[2].n * u.resolution[2]) \div (uv[2].d * pixelSize(u))
    IN  <<blockX * pixelSize(u), blockY * pixelSize(u)>>

\* dot(rgb, vec3(0.299, 0.587, 0.114))
luminance(c) == 299 * (c[1] \div 1000) + 587 * (c[2] \div 1000) + 114 * (c[3] \div 1000)

invert(c) == <<ColorOne - c[1], ColorOne - c[2], ColorOne - c[3]>>

\* only a fully transparent pixel is gated
transparentOnlyZero(a) == a <= 0

transparent(a) == a < AlphaGate

\* the light colour uniform used whether or not a custom light colour is set
ditherColorAlwaysCustom(u, baseColor, ditherValue) ==
    LET finalColor == IF ditherValue THEN u.colorLight ELSE u.colorDark
    IN  IF u.invertColor THEN invert(finalColor) ELSE finalColor

\* light and dark exchanged
ditherColorSwapped(u, baseColor, ditherValue) ==
    LET lum == luminance(baseColor)
        color == IF u.grayscaleOnly THEN <<lum, lum, lum>>
                 ELSE <<baseColor[1], baseColor[2], baseColor[3]>>
        lightColor == IF u.useCustomLightColor THEN u.colorLight ELSE color
        finalColor == IF ditherValue THEN u.colorDark ELSE lightColor
    IN  IF u.invertColor THEN invert(finalColor) ELSE finalColor

\* the custom light colour used only when grayscaleOnly is off
ditherColorGrayOverLight(u, baseColor, ditherValue) ==
    LET lum == luminance(baseColor)
        color == IF u.grayscaleOnly THEN <<lum, lum, lum>>
                 ELSE <<baseColor[1], baseColor[2], baseColor[3]>>
        lightColor == IF u.useCustomLightColor /\ ~u.grayscaleOnly THEN u.colorLight ELSE color
        finalColor == IF ditherValue THEN lightColor ELSE u.colorDark
    IN  IF u.invertColor THEN invert(finalColor) ELSE finalColor

ditherColor(u, baseColor, ditherValue) ==
    LET lum == luminance(baseColor)
        color == IF u.grayscaleOnly THEN <<lum, lum, lum>>
                 ELSE <<baseColor[1], baseColor[2], baseColor[3]>>
        lightColor == IF u.useCustomLightColor THEN u.colorLight ELSE color
        finalColor == IF ditherValue THEN lightColor ELSE u.colorDark
    IN  IF u.invertColor THEN invert(finalColor) ELSE finalColor

\* the alpha gate tested before the enabled flag
mainImageGateFirst(u, f) ==
    IF transparent(f.inputColor[4]) THEN <<0, 0, 0, 0>>
    ELSE IF ~u.ditheringEnabled THEN f.inputColor
    ELSE IF transparent(f.baseColor[4]) THEN <<0, 0, 0, 0>>
    ELSE LET ditherValue == getValue(luminance(f.baseColor), pixelatedCoord(u, f.uv),
                                     u.gridSize)
             finalColor == ditherColor(u, f.baseColor, ditherValue)
         IN  <<finalColor[1], finalColor[2], finalColor[3], f.baseColor[4]>>

mainImage(u, f) ==
    IF ~u.ditheringEnabled THEN f.inputColor
    ELSE IF transparent(f.inputColor[4]) THEN <<0, 0, 0, 0>>
    ELSE IF transparent(f.baseColor[4]) THEN <<0, 0, 0, 0>>
    ELSE LET ditherValue == getValue(luminance(f.baseColor), pixelatedCoord(u, f.uv),
                                     u.gridSize)
             finalColor == ditherColor(u, f.baseColor, ditherValue)
         IN  <<finalColor[1], finalColor[2], finalColor[3], f.baseColor[4]>>

\* one invocation of the shader: the fragment it ran on, its output, and the values
\* getValue worked with when the invocation reached it
Invocation(u, f) ==
    LET reached == u.ditheringEnabled /\ ~transparent(f.inputColor[4])
                                      /\ ~transparent(f.baseColor[4])
        pos == pixelatedCoord(u, f.uv)
    IN  [f           |-> f,
         outputColor |-> mainImage(u, f),
         dithered    |-> reached,
         cell        |-> pixel(pos, u.gridSize),
         ditherValue |-> reached /\ getValue(luminance(f.baseColor), pos, u.gridSize)]

getGridSize(u) == u.gridSize
getPixelSizeRatio(u) == u.pixelSizeRatio
getColorLight(u) == IF ~u.useCustomLightColor THEN Null ELSE u.colorLight

\* the light colours supplied so far: the one before the last, and the last
Supplied(light) == <<lights[2], light>>

\* createLightMaterial: the material before any texture has arrived
LightMaterial ==
    [map |-> FALSE, mapIntensity |-> 100, normalMap |-> FALSE, normalScale |-> 100,
     roughnessMap |-> FALSE, aoMap |-> FALSE, aoMapIntensity |-> 100, needsUpdate |-> FALSE]

\* the ambient occlusion texture stored as the roughness map
onTextureLoadAoAsRoughness(m, t) ==
    CASE t = "color"     -> [m EXCEPT !.map = TRUE, !.mapIntensity = 85, !.needsUpdate = TRUE]
      [] t = "normal"    -> [m EXCEPT !.normalMap = TRUE, !.normalScale = 120,
                                      !.needsUpdate = TRUE]
      [] t = "roughness" -> [m EXCEPT !.roughnessMap = TRUE, !.needsUpdate = TRUE]
      [] t = "ao"        -> [m EXCEPT !.roughnessMap = TRUE, !.aoMapIntensity = 45,
                                      !.needsUpdate = TRUE]

\* the four onLoad callbacks of createLightMaterial, by texture
onTextureLoad(m, t) ==
    CASE t = "color"     -> [m EXCEPT !.map = TRUE, !.mapIntensity = 85, !.needsUpdate = TRUE]
      [] t = "normal"    -> [m EXCEPT !.normalMap = TRUE, !.normalScale = 120,
                                      !.needsUpdate = TRUE]
      [] t = "roughness" -> [m EXCEPT !.roughnessMap = TRUE, !.needsUpdate = TRUE]
      [] t = "ao"        -> [m EXCEPT !.aoMap = TRUE, !.aoMapIntensity = 45,
                                      !.needsUpdate = TRUE]

\* the panel: expanded, no rounded bar, no collapse timer
\* (collapseTimeoutRef 0 is null; timers are the timeouts pending, timerIds the last
\* handle setTimeout returned, toggles the clicks of the toggle button so far)
InitPanel ==
    [expanded |-> TRUE, barRoundedBottom |-> FALSE, collapseTimeoutRef |-> 0, timers |-> {},
     timerIds |-> 0, paneExpanded |-> TRUE, toggles |-> 0]

\* the proximity-hover variant before its mount effect: far away, not hovered, no frame
\* callback yet (closure is the isHovered the frame callback captured, once there is one)
InitHover ==
    [mouseProximity |-> ProximityOne, mouseProximitySmoothed |-> ProximityOne,
     isHovered |-> FALSE, closure |-> <<>>, frames |-> 0]

InitView(p, session) ==
    /\ phase = "init"
    /\ props = p
    /\ limits = session
    /\ load = "none"
    /\ model = <<>>
    /\ scene = {}
    /\ baseScale = 100
    /\ sliders = [rotation |-> INIT_ROT, scale |-> INIT_SCALE,
                  positionX |-> INIT_POS.x, positionY |-> INIT_POS.y]
    /\ state = [rotationDeg |-> INIT_ROT_DEG, scale |-> INIT_SCALE,
                positionX |-> INIT_POS.x, positionY |-> INIT_POS.y, isShaking |-> FALSE,
                ditheringEnabled |-> TRUE, gridSize |-> 4, pixelSizeRatio |-> 2,
                grayscaleOnly |-> FALSE,
                colorDark |-> Coalesce(props.ditherColorDark, DEFAULT_DARK_RGB),
                useCustomLightColor |-> TRUE, colorLight |-> DEFAULT_LIGHT_RGB]
    /\ params = <<>>
    /\ cursor = <<0, 0>>
    /\ cursorSmoothed = <<0, 0>>
    /\ isDragging = FALSE
    /\ controlsEnabled = FALSE
    /\ tiltStrength = CURSOR_TILT_STRENGTH
    /\ time = 0
    /\ isShaking = FALSE
    /\ shakeIntensity = 0
    /\ gl = <<>>
    /\ rafs = {}
    /\ frameId = 0
    /\ listeners = {}
    /\ used = [clicks |-> 0, inputs |-> 0]
    /\ shakeAge = 0
    /\ container = <<>>
    /\ canvas = FALSE
    /\ acquired = {}
    /\ released = {}
    /\ textures = NoTextures
    /\ material = <<>>
    /\ warnings = <<>>
    /\ panel = InitPanel
    /\ hover = InitHover
    /\ frames = 0

(***************************************************************************)
(* animate                                                                 *)
(***************************************************************************)
\* value += (target - value) * factor
Lerp(value, target, factor) == value + ((target - value) * factor) \div 100

\* the strength following with the pointer's factors
tiltStepDragFaster(strength, dragging) ==
    Lerp(strength, IF dragging THEN DRAG_TILT_STRENGTH ELSE CURSOR_TILT_STRENGTH,
         IF dragging THEN DRAG_LERP ELSE CURSOR_LERP)

tiltStep(strength, dragging) ==
    Lerp(strength, IF dragging THEN DRAG_TILT_STRENGTH ELSE CURSOR_TILT_STRENGTH,
         TILT_STRENGTH_LERP)

cursorStep(sm, cur, dragging) ==
    LET cursorLerp == IF dragging THEN DRAG_LERP ELSE CURSOR_LERP
    IN  <<Lerp(sm[1], cur[1], cursorLerp), Lerp(sm[2], cur[2], cursorLerp)>>

decay(intensity) == (intensity * ShakeDecay) \div 100

\* the threshold tested before the decay is applied
shakeStepTestFirst(shaking, intensity) ==
    IF shaking
    THEN IF intensity < ShakeEpsilon
         THEN [isShaking |-> FALSE, intensity |-> 0]
         ELSE [isShaking |-> TRUE, intensity |-> decay(intensity)]
    ELSE [isShaking |-> shaking, intensity |-> intensity]

\* the intensity left as it is when the shake stops
shakeStepKeepsIntensity(shaking, intensity) ==
    IF shaking
    THEN [isShaking |-> decay(intensity) >= ShakeEpsilon, intensity |-> decay(intensity)]
    ELSE [isShaking |-> shaking, intensity |-> intensity]

\* the shake handling of a frame: the flag and the intensity it leaves
shakeStep(shaking, intensity) ==
    IF shaking
    THEN IF decay(intensity) < ShakeEpsilon
         THEN [isShaking |-> FALSE, intensity |-> 0]
         ELSE [isShaking |-> TRUE, intensity |-> decay(intensity)]
    ELSE [isShaking |-> shaking, intensity |-> intensity]

\* the transform a frame writes: the float and shake offsets are sinusoids of the time,
\* the shake offsets scaled by the intensity; the record keeps their arguments
Pose(sl, base, sm, strength, t, shaking, intensity) ==
    LET shake == IF shaking /\ intensity > 0 THEN intensity ELSE 0
    IN  [scale    |-> base * sl.scale,
         position |-> [x |-> sl.positionX, y |-> sl.positionY, z |-> INIT_POS.z],
         rotation |-> [x |-> sl.rotation.x * 10000 + sm[2] * strength,
                       y |-> sl.rotation.y * 10000 + sm[1] * strength,
                       z |-> sl.rotation.z * 10000],
         float    |-> t,
         shake    |-> shake]

\* the time advanced only when there is a model to move
animateTimeWithModel(h) ==
    LET sh == shakeStep(isShaking, shakeIntensity)
        sm == cursorStep(cursorSmoothed, cursor, isDragging)
        strength == tiltStep(tiltStrength, isDragging)
        t == IF model = <<>> THEN time ELSE time + FrameMs
    IN  /\ rafs' = (rafs \ {h}) \cup {frames + 1}
        /\ frameId' = frames + 1
        /\ tiltStrength' = strength
        /\ cursorSmoothed' = sm
        /\ time' = t
        /\ frames' = frames + 1
        /\ isShaking' = sh.isShaking
        /\ shakeIntensity' = sh.intensity
        /\ state' = IF isShaking /\ ~sh.isShaking THEN [state EXCEPT !.isShaking = FALSE]
                    ELSE state
        /\ shakeAge' = IF isShaking THEN shakeAge + 1 ELSE shakeAge
        /\ model' = IF model = <<>> THEN model
                    ELSE <<[model[1] EXCEPT
                              !.written = TRUE,
                              !.pose = Pose(sliders, baseScale, sm, strength, t,
                                            sh.isShaking, sh.intensity)]>>

\* the next frame requested only once the model exists
animateNeedsModel(h) ==
    LET sh == shakeStep(isShaking, shakeIntensity)
        sm == cursorStep(cursorSmoothed, cursor, isDragging)
        strength == tiltStep(tiltStrength, isDragging)
    IN  /\ rafs' = IF model # <<>> THEN (rafs \ {h}) \cup {frames + 1} ELSE rafs \ {h}
        /\ frameId' = IF model # <<>> THEN frames + 1 ELSE frameId
        /\ tiltStrength' = strength
        /\ cursorSmoothed' = sm
        /\ time' = time + FrameMs
        /\ frames' = frames + 1
        /\ isShaking' = sh.isShaking
        /\ shakeIntensity' = sh.intensity
        /\ state' = IF isShaking /\ ~sh.isShaking THEN [state EXCEPT !.isShaking = FALSE]
                    ELSE state
        /\ shakeAge' = IF isShaking THEN shakeAge + 1 ELSE shakeAge
        /\ model' = IF model = <<>> THEN model
                    ELSE <<[model[1] EXCEPT
                              !.written = TRUE,
                              !.pose = Pose(sliders, baseScale, sm, strength,
                                            time + FrameMs, sh.isShaking, sh.intensity)]>>

\* requestAnimationFrame(animate) without keeping the handle
animateDropsFrameId(h) ==
    LET sh == shakeStep(isShaking, shakeIntensity)
        sm == cursorStep(cursorSmoothed, cursor, isDragging)
        strength == tiltStep(tiltStrength, isDragging)
    IN  /\ rafs' = (rafs \ {h}) \cup {frames + 1}
        /\ frameId' = frameId
        /\ tiltStrength' = strength
        /\ cursorSmoothed' = sm
        /\ time' = time + FrameMs
        /\ frames' = frames + 1
        /\ isShaking' = sh.isShaking
        /\ shakeIntensity' = sh.intensity
        /\ state' = IF isShaking /\ ~sh.isShaking THEN [state EXCEPT !.isShaking = FALSE]
                    ELSE state
        /\ shakeAge' = IF isShaking THEN shakeAge + 1 ELSE shakeAge
        /\ model' = IF model = <<>> THEN model
                    ELSE <<[model[1] EXCEPT
                              !.written = TRUE,
                              !.pose = Pose(sliders, baseScale, sm, strength,
                                            time + FrameMs, sh.isShaking, sh.intensity)]>>

animate(h) ==
    LET sh == shakeStep(isShaking, shakeIntensity)
        sm == cursorStep(cursorSmoothed, cursor, isDragging)
        strength == tiltStep(tiltStrength, isDragging)
    IN  /\ rafs' = (rafs \ {h}) \cup {frames + 1}
        /\ frameId' = frames + 1
        /\ tiltStrength' = strength
        /\ cursorSmoothed' = sm
        /\ time' = time + FrameMs
        /\ frames' = frames + 1
        /\ isShaking' = sh.isShaking
        /\ shakeIntensity' = sh.intensity
        /\ state' = IF isShaking /\ ~sh.isShaking THEN [state EXCEPT !.isShaking = FALSE]
                    ELSE state
        /\ shakeAge' = IF isShaking THEN shakeAge + 1 ELSE shakeAge
        /\ model' = IF model = <<>> THEN model
                    ELSE <<[model[1] EXCEPT
                              !.written = TRUE,
                              !.pose = Pose(sliders, baseScale, sm, strength,
                                            time + FrameMs, sh.isShaking, sh.intensity)]>>

\* the effect methods as the view and the effect's own callers invoke them
Invoke(u, op) ==
    /\ fx' = <<u>>
    /\ call' = op
    /\ shot' = <<>>

(***************************************************************************)
(* HandModel: mount, the loader callbacks, the listeners, the frame        *)
(***************************************************************************)
NoPose == Pose(sliders, 0, <<0, 0>>, 0, 0, FALSE, 0)

Mount ==
    /\ phase = "init"
    /\ phase' = "mounted"
    /\ \E size \in Sizes, window \in Sizes :
          /\ container' = size
          /\ gl' = <<[aspect |-> size, rendererSize |-> size, composerSize |-> size]>>
          /\ LET light == IF props.ditherColorLight.k = "some" THEN props.ditherColorLight
                          ELSE IF state.useCustomLightColor THEN Some(DEFAULT_LIGHT_RGB)
                          ELSE Undef
                 options == [gridSize |-> Some(4), pixelSizeRatio |-> Some(2),
                             grayscaleOnly |-> Some(FALSE), ditheringEnabled |-> Some(TRUE),
                             invertColor |-> Undef,
                             colorDark |-> Some(Coalesce(props.ditherColorDark,
                                                         DEFAULT_DARK_RGB)),
                             colorLight |-> light]
             IN  /\ Invoke(setResolution(DitheringEffect(options, window), size[1], size[2]),
                           [op |-> "setResolution"])
                 /\ lights' = Supplied(Coalesce(light, Null))
    /\ controlsEnabled' = TRUE
    /\ load' = "pending"
    /\ scene' = Lights \cup {"topSpotlight.target", "ground"}
    /\ listeners' = Listeners
    /\ params' = <<[useCustomLight |-> state.useCustomLightColor,
                    colorLight |-> ToByte(state.colorLight)]>>
    /\ canvas' = TRUE
    /\ acquired' = MountResources
    /\ animate(0)
    /\ UNCHANGED <<props, model, baseScale, sliders, cursor, isDragging, limits, used,
                   released, textures, material, warnings, panel, hover>>

GltfLoaded ==
    /\ load = "pending"
    /\ load' = "done"
    /\ \E maxDim \in MaxDims :
          /\ baseScale' = ((TARGET_SIZE * INIT_SCALE) \div maxDim)
          /\ model' = <<[kind |-> "gltf", written |-> FALSE, pose |-> NoPose]>>
    /\ scene' = scene \cup {"model"}
    /\ acquired' = acquired \cup GltfResources
    /\ released' = released \cup BulletResources
    /\ UNCHANGED <<fx, call, lights, shot, phase, props, sliders, state, params, cursor,
                   cursorSmoothed, isDragging, controlsEnabled, tiltStrength, time,
                   isShaking, shakeIntensity, gl, rafs, frameId, listeners, limits, used,
                   shakeAge, container, canvas, textures, material, warnings, panel, hover, frames>>

\* the error callback starting the load again
GltfFailedRetries ==
    /\ load = "pending"
    /\ load' = "pending"
    /\ model' = <<[kind |-> "placeholder", written |-> FALSE, pose |-> NoPose]>>
    /\ baseScale' = INIT_SCALE
    /\ scene' = scene \cup {"model"}
    /\ acquired' = acquired \cup PlaceholderResources
    /\ textures' = [t \in TOWEL_TEXTURES |-> "pending"]
    /\ material' = <<LightMaterial>>
    /\ UNCHANGED <<fx, call, lights, shot, phase, props, sliders, state, params, cursor,
                   cursorSmoothed, isDragging, controlsEnabled, tiltStrength, time,
                   isShaking, shakeIntensity, gl, rafs, frameId, listeners, limits, used,
                   shakeAge, container, canvas, released, warnings, panel, hover, frames>>

GltfFailed ==
    /\ load = "pending"
    /\ load' = "done"
    /\ model' = <<[kind |-> "placeholder", written |-> FALSE, pose |-> NoPose]>>
    /\ baseScale' = INIT_SCALE
    /\ scene' = scene \cup {"model"}
    /\ acquired' = acquired \cup PlaceholderResources
    /\ textures' = [t \in TOWEL_TEXTURES |-> "pending"]
    /\ material' = <<LightMaterial>>
    /\ UNCHANGED <<fx, call, lights, shot, phase, props, sliders, state, params, cursor,
                   cursorSmoothed, isDragging, controlsEnabled, tiltStrength, time,
                   isShaking, shakeIntensity, gl, rafs, frameId, listeners, limits, used,
                   shakeAge, container, canvas, released, warnings, panel, hover, frames>>

\* the callback requestAnimationFrame holds, unless cancelled
Frame ==
    /\ \E h \in rafs : animate(h)
    /\ time < FrameMs * limits.frames
    /\ UNCHANGED <<fx, call, lights, shot, phase, props, load, scene, baseScale, sliders,
                   params, cursor, isDragging, controlsEnabled, gl, listeners, limits, used,
                   container, canvas, acquired, released, textures, material, warnings, panel, hover>>

\* an input event other than a click is within the session's budget
Input(listener) ==
    /\ listener \in listeners \/ (listener = "pane" /\ phase = "mounted")
    /\ used.inputs < limits.inputs
    /\ used' = [used EXCEPT !.inputs = @ + 1]

clamp1(v) == Max(-CursorOne, Min(CursorOne, v))

onMouseMove ==
    /\ Input("mousemove")
    /\ \E window \in Sizes : \E e \in Pointers(window) :
          cursor' = <<clamp1((CursorOne * (2 * e[1] - window[1])) \div window[1]),
                      clamp1((CursorOne * (2 * e[2] - window[2])) \div window[2])>>
    /\ UNCHANGED <<fx, call, lights, shot, phase, props, load, model, scene, baseScale,
                   sliders, state, params, cursorSmoothed, isDragging, controlsEnabled,
                   tiltStrength, time, isShaking, shakeIntensity, gl, rafs, frameId,
                   listeners, limits, shakeAge, container, canvas,
                   acquired, released, textures, material, warnings, panel, hover, frames>>

onMouseDown ==
    /\ Input("mousedown")
    /\ isDragging' = TRUE
    /\ controlsEnabled' = FALSE
    /\ UNCHANGED <<fx, call, lights, shot, phase, props, load, model, scene, baseScale,
                   sliders, state, params, cursor, cursorSmoothed, tiltStrength, time,
                   isShaking, shakeIntensity, gl, rafs, frameId, listeners, limits, shakeAge, container, canvas,
                   acquired, released, textures, material, warnings, panel, hover, frames>>

\* a mouse up that leaves the controls as they are
onMouseUpKeepsControls ==
    /\ Input("mouseup")
    /\ isDragging' = FALSE
    /\ UNCHANGED <<fx, call, lights, shot, phase, props, load, model, scene, baseScale,
                   sliders, state, params, cursor, cursorSmoothed, tiltStrength, time,
                   isShaking, shakeIntensity, gl, rafs, frameId, listeners, limits, shakeAge, container, canvas,
                   acquired, released, textures, material, warnings, panel, hover, frames,
                   controlsEnabled>>

onMouseUp ==
    /\ Input("mouseup")
    /\ isDragging' = FALSE
    /\ controlsEnabled' = TRUE
    /\ UNCHANGED <<fx, call, lights, shot, phase, props, load, model, scene, baseScale,
                   sliders, state, params, cursor, cursorSmoothed, tiltStrength, time,
                   isShaking, shakeIntensity, gl, rafs, frameId, listeners, limits, shakeAge, container, canvas,
                   acquired, released, textures, material, warnings, panel, hover, frames>>

\* a click during a shake is ignored
onClickNoRestart ==
    /\ phase = "mounted"
    /\ "click" \in listeners
    /\ used.clicks < limits.clicks
    /\ used' = [used EXCEPT !.clicks = @ + 1]
    /\ isShaking' = TRUE
    /\ shakeIntensity' = IF isShaking THEN shakeIntensity ELSE ShakeOne
    /\ state' = [state EXCEPT !.isShaking = TRUE]
    /\ shakeAge' = IF isShaking THEN shakeAge ELSE 0
    /\ UNCHANGED <<fx, call, lights, shot, phase, props, load, model, scene, baseScale,
                   sliders, params, cursor, cursorSmoothed, isDragging, controlsEnabled,
                   tiltStrength, time, gl, rafs, frameId, listeners, limits, container, canvas,
                   acquired, released, textures, material, warnings, panel, hover, frames>>

onClick ==
    /\ phase = "mounted"
    /\ "click" \in listeners
    /\ used.clicks < limits.clicks
    /\ used' = [used EXCEPT !.clicks = @ + 1]
    /\ isShaking' = TRUE
    /\ shakeIntensity' = ShakeOne
    /\ state' = [state EXCEPT !.isShaking = TRUE]
    /\ shakeAge' = 0
    /\ UNCHANGED <<fx, call, lights, shot, phase, props, load, model, scene, baseScale,
                   sliders, params, cursor, cursorSmoothed, isDragging, controlsEnabled,
                   tiltStrength, time, gl, rafs, frameId, listeners, limits, container, canvas,
                   acquired, released, textures, material, warnings, panel, hover, frames>>

\* the resize handler without the update of the dithering resolution
onResizeKeepsResolution ==
    /\ Input("resize")
    /\ \E size \in Sizes :
          /\ container' = size
          /\ gl' = <<[aspect |-> size, rendererSize |-> size, composerSize |-> size]>>
    /\ UNCHANGED <<fx, call, shot, lights, phase, props, load, model, scene, baseScale,
                   sliders, state, params, cursor, cursorSmoothed, isDragging,
                   controlsEnabled, tiltStrength, time, isShaking, shakeIntensity,
                   rafs, frameId, listeners, limits, shakeAge, canvas, acquired, released,
                   textures, material, warnings, panel, hover, frames>>

onResize ==
    /\ Input("resize")
    /\ \E size \in Sizes :
          /\ container' = size
          /\ gl' = <<[aspect |-> size, rendererSize |-> size, composerSize |-> size]>>
          /\ IF fx # <<>>
             THEN Invoke(setResolution(fx[1], size[1], size[2]), [op |-> "setResolution"])
             ELSE UNCHANGED <<fx, call, shot>>
    /\ UNCHANGED <<lights, phase, props, load, model, scene, baseScale, sliders, state,
                   params, cursor, cursorSmoothed, isDragging, controlsEnabled, tiltStrength,
                   time, isShaking, shakeIntensity, rafs, frameId, listeners, limits,
                   shakeAge, canvas, acquired, released, textures, material, warnings, panel, hover, frames>>

\* the cleanup with the resize listener left registered
UnmountKeepsResize ==
    /\ phase = "mounted"
    /\ limits.teardown
    /\ phase' = "unmounted"
    /\ listeners' = listeners \cap {"resize"}
    /\ rafs' = rafs \ {frameId}
    /\ released' = released \cup ComposerOwned \cup {"renderer"}
    /\ canvas' = FALSE
    /\ panel' = [panel EXCEPT !.timers = @ \ {panel.collapseTimeoutRef}]
    /\ UNCHANGED <<fx, call, lights, shot, props, load, model, scene, baseScale, sliders,
                   state, params, cursor, cursorSmoothed, isDragging, controlsEnabled,
                   tiltStrength, time, isShaking, shakeIntensity, gl, limits, used, shakeAge,
                   container, acquired, textures, material, warnings, hover, frames, frameId>>

\* the cleanup of the mount effect: listeners removed, the pending frame cancelled, the
\* controls, the composer (with its passes and their effect) and the renderer disposed,
\* the canvas taken out of the container
Unmount ==
    /\ phase = "mounted"
    /\ limits.teardown
    /\ phase' = "unmounted"
    /\ listeners' = {}
    /\ rafs' = rafs \ {frameId}
    /\ released' = released \cup ComposerOwned \cup {"renderer"}
    /\ canvas' = FALSE
    /\ panel' = [panel EXCEPT !.timers = @ \ {panel.collapseTimeoutRef}]
    /\ UNCHANGED <<fx, call, lights, shot, props, load, model, scene, baseScale, sliders,
                   state, params, cursor, cursorSmoothed, isDragging, controlsEnabled,
                   tiltStrength, time, isShaking, shakeIntensity, gl, limits, used, shakeAge,
                   container, acquired, textures, material, warnings, hover, frames, frameId>>

\* the onLoad callback of a texture load: the texture becomes a map of the material
textureLoaded(t) ==
    /\ textures[t] = "pending"
    /\ textures' = [textures EXCEPT ![t] = "loaded"]
    /\ material' = <<onTextureLoad(material[1], t)>>
    /\ acquired' = acquired \cup {t}
    /\ UNCHANGED warnings

\* the onError callback of a texture load: console.warn only
textureFailed(t) ==
    /\ textures[t] = "pending"
    /\ textures' = [textures EXCEPT ![t] = "failed"]
    /\ warnings' = Append(warnings, t)
    /\ UNCHANGED <<material, acquired>>

\* what no texture callback touches
textureRest ==
    <<fx, call, lights, shot, phase, props, load, model, scene, baseScale, sliders, state,
      params, cursor, cursorSmoothed, isDragging, controlsEnabled, tiltStrength, time,
      isShaking, shakeIntensity, gl, rafs, frameId, listeners, limits, shakeAge, container,
      canvas, released, panel, hover, frames>>

\* the texture loads are followed in the teardown sessions, within their budget of events
TextureCallback ==
    /\ limits.teardown
    /\ used.inputs < limits.inputs
    /\ used' = [used EXCEPT !.inputs = @ + 1]
    /\ UNCHANGED textureRest

TextureLoaded == \E t \in TOWEL_TEXTURES : TextureCallback /\ textureLoaded(t)

TextureFailed == \E t \in TOWEL_TEXTURES : TextureCallback /\ textureFailed(t)

(***************************************************************************)
(* HandModel: the control handlers and the panel bindings that call them   *)
(***************************************************************************)
viewRefs ==
    <<phase, props, load, model, scene, baseScale, cursor, cursorSmoothed, isDragging,
      controlsEnabled, tiltStrength, time, isShaking, shakeIntensity, gl, rafs, frameId,
      listeners, limits, shakeAge, container, canvas, acquired, released, textures, material, warnings, panel, hover, frames>>

onRotationChange ==
    /\ Input("pane")
    /\ \E axis \in {"x", "y", "z"}, valueDeg \in Degrees :
          /\ state' = [state EXCEPT !.rotationDeg[axis] = valueDeg]
          /\ sliders' = [sliders EXCEPT !.rotation[axis] = Rad(valueDeg)]
    /\ UNCHANGED <<fx, call, lights, shot, params, viewRefs>>

\* the handler setting the scale on the model node itself
onScaleChangeWritesModel ==
    /\ Input("pane")
    /\ \E value \in ScaleSteps :
          /\ state' = [state EXCEPT !.scale = value]
          /\ sliders' = [sliders EXCEPT !.scale = value]
          /\ model' = IF model = <<>> THEN model
                      ELSE <<[model[1] EXCEPT !.pose.scale = baseScale * value]>>
    /\ UNCHANGED <<fx, call, lights, shot, params, phase, props, load, scene, baseScale,
                   cursor, cursorSmoothed, isDragging, controlsEnabled, tiltStrength, time,
                   isShaking, shakeIntensity, gl, rafs, frameId, listeners, limits, shakeAge,
                   container, canvas, acquired, released, textures, material, warnings, panel, hover, frames>>

\* the handler setting the React state only
onScaleChangeStateOnly ==
    /\ Input("pane")
    /\ \E value \in ScaleSteps : state' = [state EXCEPT !.scale = value]
    /\ UNCHANGED <<fx, call, lights, shot, params, sliders, viewRefs>>

onScaleChange ==
    /\ Input("pane")
    /\ \E value \in ScaleSteps :
          /\ state' = [state EXCEPT !.scale = value]
          /\ sliders' = [sliders EXCEPT !.scale = value]
    /\ UNCHANGED <<fx, call, lights, shot, params, viewRefs>>

onPositionYChange ==
    /\ Input("pane")
    /\ \E value \in PositionSteps :
          /\ state' = [state EXCEPT !.positionY = value]
          /\ sliders' = [sliders EXCEPT !.positionY = value]
    /\ UNCHANGED <<fx, call, lights, shot, params, viewRefs>>

onPositionXChange ==
    /\ Input("pane")
    /\ \E value \in PositionSteps :
          /\ state' = [state EXCEPT !.positionX = value]
          /\ sliders' = [sliders EXCEPT !.positionX = value]
    /\ UNCHANGED <<fx, call, lights, shot, params, viewRefs>>

\* if (ditheringEffectRef.current) ditheringEffectRef.current.<setter>(...)
IfEffect(u, op) == IF fx # <<>> THEN Invoke(u, op) ELSE UNCHANGED <<fx, call, shot>>

onDitheringEnabledChange ==
    /\ Input("pane")
    /\ LET enabled == ~state.ditheringEnabled
       IN  /\ state' = [state EXCEPT !.ditheringEnabled = enabled]
           /\ IfEffect(setDitheringEnabled(fx[1], enabled), [op |-> "setDitheringEnabled"])
    /\ UNCHANGED <<lights, sliders, params, viewRefs>>

onGridSizeChange ==
    /\ Input("pane")
    /\ \E value \in GridSteps :
          /\ state' = [state EXCEPT !.gridSize = value]
          /\ IfEffect(setGridSize(fx[1], value), [op |-> "setGridSize", size |-> value])
    /\ UNCHANGED <<lights, sliders, params, viewRefs>>

onPixelSizeRatioChange ==
    /\ Input("pane")
    /\ \E value \in RatioSteps :
          /\ state' = [state EXCEPT !.pixelSizeRatio = value]
          /\ IfEffect(setPixelSizeRatio(fx[1], value),
                      [op |-> "setPixelSizeRatio", ratio |-> value])
    /\ UNCHANGED <<lights, sliders, params, viewRefs>>

onGrayscaleOnlyChange ==
    /\ Input("pane")
    /\ LET grayscale == ~state.grayscaleOnly
       IN  /\ state' = [state EXCEPT !.grayscaleOnly = grayscale]
           /\ IfEffect(setGrayscaleOnly(fx[1], grayscale), [op |-> "setGrayscaleOnly"])
    /\ UNCHANGED <<lights, sliders, params, viewRefs>>

onColorDarkChange(rgb) ==
    /\ state' = [state EXCEPT !.colorDark = rgb]
    /\ IfEffect(setColorDark(fx[1], rgb), [op |-> "setColorDark"])
    /\ UNCHANGED lights

onColorLightChange(rgb) ==
    /\ state' = [state EXCEPT !.useCustomLightColor = (rgb # Null),
                              !.colorLight = IF rgb # Null THEN rgb ELSE @]
    /\ IfEffect(setColorLight(fx[1], rgb), [op |-> "setColorLight"])
    /\ lights' = IF fx # <<>> THEN Supplied(rgb) ELSE lights

\* the 'dark' colour binding
paneColorDark ==
    /\ Input("pane")
    /\ \E c \in Swatches : onColorDarkChange(FromByte(c))
    /\ UNCHANGED <<sliders, params, viewRefs>>

\* the 'custom light' checkbox
paneUseCustomLight ==
    /\ Input("pane")
    /\ LET value == ~params[1].useCustomLight
       IN  /\ params' = <<[params[1] EXCEPT !.useCustomLight = value]>>
           /\ onColorLightChange(IF value THEN FromByte(params[1].colorLight) ELSE Null)
    /\ UNCHANGED <<sliders, viewRefs>>

\* the 'light' colour binding
paneColorLight ==
    /\ Input("pane")
    /\ \E c \in Swatches :
          /\ params' = <<[params[1] EXCEPT !.colorLight = c]>>
          /\ onColorLightChange(FromByte(c))
    /\ UNCHANGED <<sliders, viewRefs>>

Init ==
    /\ \E p \in Props, session \in Sessions : InitView(p, session)
    /\ fx = <<>>
    /\ call = [op |-> "none"]
    /\ lights = <<Null, Null>>
    /\ shot = <<>>

Next ==
    \/ Mount
    \/ GltfLoaded
    \/ GltfFailed
    \/ Frame
    \/ onMouseMove
    \/ onMouseDown
    \/ onMouseUp
    \/ onClick
    \/ onResize
    \/ Unmount
    \/ TextureLoaded
    \/ TextureFailed
    \/ onRotationChange
    \/ onScaleChange
    \/ onPositionYChange
    \/ onPositionXChange
    \/ onDitheringEnabledChange
    \/ onGridSizeChange
    \/ onPixelSizeRatioChange
    \/ onGrayscaleOnlyChange
    \/ paneColorDark
    \/ paneUseCustomLight
    \/ paneColorLight

Spec == Init /\ [][Next]_vars

(***************************************************************************)
(* The effect on its own: constructed with any options, then any sequence  *)
(* of setter calls and shader invocations.                                 *)
(***************************************************************************)
Options ==
    [gridSize : GridOpts, pixelSizeRatio : RatioOpts, grayscaleOnly : {Undef},
     ditheringEnabled : BoolOpts, invertColor : {Undef, Some(TRUE)},
     colorDark : DarkOpts, colorLight : LightOpts]

InitEffect ==
    /\ InitView(NoProps, ControlSession)
    /\ fx = <<>>
    /\ call = [op |-> "none"]
    /\ lights = <<Null, Null>>
    /\ shot = <<>>

New ==
    /\ fx = <<>>
    /\ \E options \in Options, window \in Sizes :
          /\ fx' = <<DitheringEffect(options, window)>>
          /\ call' = [op |-> "new"]
          /\ lights' = Supplied(Coalesce(options.colorLight, Null))
    /\ UNCHANGED <<shot, hmVars>>

CallSetGridSize ==
    /\ fx # <<>>
    /\ \E size \in GridArgs :
          /\ fx' = <<setGridSize(fx[1], size)>>
          /\ call' = [op |-> "setGridSize", size |-> size]
    /\ shot' = <<>>
    /\ UNCHANGED <<lights, hmVars>>

CallSetPixelSizeRatio ==
    /\ fx # <<>>
    /\ \E ratio \in RatioArgs :
          /\ fx' = <<setPixelSizeRatio(fx[1], ratio)>>
          /\ call' = [op |-> "setPixelSizeRatio", ratio |-> ratio]
    /\ shot' = <<>>
    /\ UNCHANGED <<lights, hmVars>>

CallSetGrayscaleOnly ==
    /\ fx # <<>>
    /\ \E grayscale \in BOOLEAN :
          /\ fx' = <<setGrayscaleOnly(fx[1], grayscale)>>
          /\ call' = [op |-> "setGrayscaleOnly"]
    /\ shot' = <<>>
    /\ UNCHANGED <<lights, hmVars>>

CallSetDitheringEnabled ==
    /\ fx # <<>>
    /\ \E enabled \in BOOLEAN :
          /\ fx' = <<setDitheringEnabled(fx[1], enabled)>>
          /\ call' = [op |-> "setDitheringEnabled"]
    /\ shot' = <<>>
    /\ UNCHANGED <<lights, hmVars>>

CallSetInvertColor ==
    /\ fx # <<>>
    /\ \E inv \in BOOLEAN :
          /\ fx' = <<setInvertColor(fx[1], inv)>>
          /\ call' = [op |-> "setInvertColor"]
    /\ shot' = <<>>
    /\ UNCHANGED <<lights, hmVars>>

CallSetResolution ==
    /\ fx # <<>>
    /\ \E size \in Sizes :
          /\ fx' = <<setResolution(fx[1], size[1], size[2])>>
          /\ call' = [op |-> "setResolution"]
    /\ shot' = <<>>
    /\ UNCHANGED <<lights, hmVars>>

CallSetColorDark ==
    /\ fx # <<>>
    /\ \E rgb \in DarkArgs :
          /\ fx' = <<setColorDark(fx[1], rgb)>>
          /\ call' = [op |-> "setColorDark"]
    /\ shot' = <<>>
    /\ UNCHANGED <<lights, hmVars>>

CallSetColorLight ==
    /\ fx # <<>>
    /\ \E rgb \in LightArgs :
          /\ fx' = <<setColorLight(fx[1], rgb)>>
          /\ call' = [op |-> "setColorLight"]
          /\ lights' = Supplied(rgb)
    /\ shot' = <<>>
    /\ UNCHANGED hmVars

CallSetColors ==
    /\ fx # <<>>
    /\ \E dark \in DarkArgs, light \in LightOpts :
          /\ fx' = <<setColors(fx[1], dark, light)>>
          /\ call' = [op |-> "setColors"]
          /\ lights' = Supplied(Coalesce(light, Null))
    /\ shot' = <<>>
    /\ UNCHANGED hmVars

\* the pass runs the shader on a fragment of the input buffer; shot observes one
\* invocation under the uniforms in force, and any change of the uniforms forgets it
Render(buffer) ==
    /\ fx # <<>>
    /\ shot = <<>>
    /\ \E f \in buffer : shot' = <<Invocation(fx[1], f)>>
    /\ UNCHANGED <<fx, call, lights, hmVars>>

RenderProbe == Render(Probes)

NextEffect ==
    \/ New
    \/ CallSetGridSize
    \/ CallSetPixelSizeRatio
    \/ CallSetGrayscaleOnly
    \/ CallSetDitheringEnabled
    \/ CallSetInvertColor
    \/ CallSetResolution
    \/ CallSetColorDark
    \/ CallSetColorLight
    \/ CallSetColors
    \/ RenderProbe

SpecEffect == InitEffect /\ [][NextEffect]_vars

(***************************************************************************)
(* The shader as a function: the uniforms drawn from the values the        *)
(* setters can leave, the fragments from the buffer.                       *)
(***************************************************************************)
InitShader ==
    /\ InitView(NoProps, ControlSession)
    /\ \E u \in Uniforms :
          /\ fx = <<u>>
          /\ lights = <<Null, IF u.useCustomLightColor THEN u.colorLight ELSE Null>>
    /\ call = [op |-> "new"]
    /\ shot = <<>>

RenderFragment == Render(Fragments)

NextShader == RenderFragment

SpecShader == InitShader /\ [][NextShader]_vars

(***************************************************************************)
(* The material on its own: created, then the callbacks of its four        *)
(* texture loads in any order and with any outcome.                        *)
(***************************************************************************)
InitMaterial ==
    /\ InitView(NoProps, TeardownSession)
    /\ fx = <<>>
    /\ call = [op |-> "none"]
    /\ lights = <<Null, Null>>
    /\ shot = <<>>

CreateLightMaterial ==
    /\ material = <<>>
    /\ material' = <<LightMaterial>>
    /\ textures' = [t \in TOWEL_TEXTURES |-> "pending"]
    /\ UNCHANGED <<warnings, acquired, used, textureRest>>

LoadArrives == \E t \in TOWEL_TEXTURES : textureLoaded(t) /\ UNCHANGED <<used, textureRest>>

ErrorArrives == \E t \in TOWEL_TEXTURES : textureFailed(t) /\ UNCHANGED <<used, textureRest>>

NextMaterial ==
    \/ CreateLightMaterial
    \/ LoadArrives
    \/ ErrorArrives

SpecMaterial == InitMaterial /\ [][NextMaterial]_vars

(***************************************************************************)
(* The proximity-hover variant (SCENE_SNIPPET_FOR_AGENT.tsx)               *)
(***************************************************************************)
\* Math.sqrt, on the squares the pointers give
Sqrt(n) == CHOOSE r \in 0 .. 2000 : r * r <= n /\ n < (r + 1) * (r + 1)

\* onMouseMove: the eased proximity of a pointer position
easedProximity(e, window) ==
    LET modelCenterX == (window[1] * 3) \div 4
        modelCenterY == window[2] \div 2
        distance == Sqrt((e[1] - modelCenterX) * (e[1] - modelCenterX)
                         + (e[2] - modelCenterY) * (e[2] - modelCenterY))
        normalizedDistance ==
            Min(ProximityOne, Max(0, (distance * ProximityOne) \div PROXIMITY_THRESHOLD))
    IN  ProximityOne
          - ((ProximityOne - normalizedDistance) * (ProximityOne - normalizedDistance))
              \div ProximityOne

hoverRest ==
    <<fx, call, lights, shot, phase, props, load, model, scene, baseScale, sliders, state,
      params, cursor, cursorSmoothed, isDragging, controlsEnabled, tiltStrength, time,
      isShaking, shakeIntensity, gl, rafs, frameId, listeners, limits, used, shakeAge,
      container, canvas, acquired, released, textures, material, warnings, panel, frames>>

\* the mount effect of the variant: it runs once (its dependency list is empty) and its
\* frame callback keeps the isHovered of the render that created it
HoverMount ==
    /\ hover.closure = <<>>
    /\ hover' = [hover EXCEPT !.closure = <<hover.isHovered>>]
    /\ UNCHANGED hoverRest

HoverMouseMove ==
    /\ hover.closure # <<>>
    /\ \E e \in HoverPointers :
          hover' = [hover EXCEPT !.mouseProximity = easedProximity(e, HoverWindow)]
    /\ UNCHANGED hoverRest

\* the hover part of animate
hoverStep(h) ==
    LET currentProximity == h.mouseProximitySmoothed
        newProximity == currentProximity
            + ((h.mouseProximity - currentProximity) * PROXIMITY_SMOOTHING) \div 100
        isNear == newProximity < NearProximity
        isHovered == h.closure[1]
    IN  [h EXCEPT !.mouseProximitySmoothed = newProximity,
                  !.isHovered = IF isNear # isHovered THEN isNear ELSE @,
                  !.frames = @ + 1]

HoverAnimate ==
    /\ hover.closure # <<>>
    /\ hover.frames < HoverFrames
    /\ hover' = hoverStep(hover)
    /\ UNCHANGED hoverRest

InitHoverView ==
    /\ InitView(NoProps, PanelSession)
    /\ fx = <<>>
    /\ call = [op |-> "none"]
    /\ lights = <<Null, Null>>
    /\ shot = <<>>

NextHover ==
    \/ HoverMount
    \/ HoverMouseMove
    \/ HoverAnimate

SpecHover == InitHoverView /\ [][NextHover]_vars

(***************************************************************************)
(* The controls panel: the toggle button and the collapse timer            *)
(***************************************************************************)
\* the labels exchanged
ariaLabelSwapped(expanded) == IF expanded THEN "Expand controls" ELSE "Collapse controls"

\* aria-label of the toggle button
ariaLabel(expanded) == IF expanded THEN "Collapse controls" ELSE "Expand controls"

\* the toggle without the clearTimeout of the pending timer
handlePanelExpandToggleNoClear(pn, paneAlive) ==
    LET next == ~pn.expanded
    IN  [pn EXCEPT
           !.expanded = next,
           !.paneExpanded = IF paneAlive THEN next ELSE @,
           !.barRoundedBottom = IF next THEN FALSE ELSE @,
           !.collapseTimeoutRef = IF next THEN @ ELSE pn.timerIds + 1,
           !.timers = IF next THEN @ ELSE @ \cup {pn.timerIds + 1},
           !.timerIds = IF next THEN @ ELSE @ + 1,
           !.toggles = @ + 1]

\* handlePanelExpandToggle: the panel it leaves
handlePanelExpandToggle(pn, paneAlive) ==
    LET next == ~pn.expanded
        cleared == IF pn.collapseTimeoutRef # 0 THEN pn.timers \ {pn.collapseTimeoutRef}
                   ELSE pn.timers
    IN  [pn EXCEPT
           !.expanded = next,
           !.paneExpanded = IF paneAlive THEN next ELSE @,
           !.barRoundedBottom = IF next THEN FALSE ELSE @,
           !.collapseTimeoutRef = IF next THEN 0 ELSE pn.timerIds + 1,
           !.timers = IF next THEN cleared ELSE cleared \cup {pn.timerIds + 1},
           !.timerIds = IF next THEN @ ELSE @ + 1,
           !.toggles = @ + 1]

panelRest ==
    <<fx, call, lights, shot, phase, props, load, model, scene, baseScale, sliders, state,
      params, cursor, cursorSmoothed, isDragging, controlsEnabled, tiltStrength, time,
      isShaking, shakeIntensity, gl, rafs, frameId, listeners, limits, used, shakeAge,
      container, canvas, acquired, released, textures, material, warnings, hover, frames>>

\* a click of the toggle button
Toggle ==
    /\ phase = "mounted"
    /\ panel.toggles < MaxToggles
    /\ panel' = handlePanelExpandToggle(panel, params # <<>>)
    /\ UNCHANGED panelRest

\* the collapse timer expires
CollapseTimer ==
    /\ \E id \in panel.timers :
          panel' = [panel EXCEPT !.timers = @ \ {id}, !.barRoundedBottom = TRUE,
                                 !.collapseTimeoutRef = 0]
    /\ UNCHANGED panelRest

InitPanelView ==
    /\ \E p \in Props : InitView(p, PanelSession)
    /\ fx = <<>>
    /\ call = [op |-> "none"]
    /\ lights = <<Null, Null>>
    /\ shot = <<>>

NextPanel ==
    \/ Mount
    \/ Toggle
    \/ CollapseTimer
    \/ paneColorDark
    \/ paneUseCustomLight
    \/ paneColorLight
    \/ Unmount

SpecPanel == InitPanelView /\ [][NextPanel]_vars

(***************************************************************************)
(* Properties of the shake                                                 *)
(***************************************************************************)
ClickStep == used'.clicks # used.clicks
FrameStep == time' # time

\* C1: the shake flag changes only so: a click sets the flag and intensity 1 from either
\* state; a frame keeps the flag while the decayed intensity is >= 0.01 and clears it when
\* the decayed intensity is < 0.01; a frame never sets the flag; every other step (mouse
\* move, down, up, resize, control change, loader callback) leaves flag and intensity
\* unchanged.
C1_ShakeTransitions ==
    [][/\ ClickStep => (isShaking' /\ shakeIntensity' = 10000000)
       /\ (FrameStep /\ isShaking) =>
             isShaking' = ((shakeIntensity * 92) \div 100 >= 100000)
       /\ (FrameStep /\ ~isShaking) => ~isShaking'
       /\ (~ClickStep /\ ~FrameStep) => UNCHANGED <<isShaking, shakeIntensity>>]_vars

\* a second click two frames after mount, the first shake still decaying or just begun
C1_Witness ==
    /\ used.clicks = 2
    /\ time = 3 * FrameMs
    /\ isShaking
    /\ shakeIntensity = ShakeOne
    /\ state.isShaking

\* 0.92^k, rounded down to 1/ShakeOne at each multiplication
RECURSIVE Pow92(_)
Pow92(k) == IF k = 0 THEN 10000000 ELSE (Pow92(k - 1) * 92) \div 100

\* C2: k frames after the last click the intensity is 0.92^k as long as 0.92^k >= 0.01;
\* the first frame k with 0.92^k < 0.01 clears the flag and zeroes the intensity, and the
\* flag then stays false on every later frame until a new click.
C2_ShakeDecay ==
    /\ []((used.clicks > 0 /\ isShaking) =>
            /\ shakeIntensity = Pow92(shakeAge)
            /\ Pow92(shakeAge) >= 100000)
    /\ []((used.clicks > 0 /\ ~isShaking) =>
            /\ shakeIntensity = 0
            /\ shakeAge > 0
            /\ Pow92(shakeAge) < 100000
            /\ Pow92(shakeAge - 1) >= 100000)
    /\ [][(~isShaking /\ ~ClickStep) => ~isShaking']_vars

\* the shake ended at its 56th frame and idle frames followed
C2_Witness ==
    /\ used.clicks = 1
    /\ ~isShaking
    /\ shakeIntensity = 0
    /\ shakeAge = 56
    /\ time = FrameMs * 60

(***************************************************************************)
(* Properties of the effect                                                *)
(***************************************************************************)
Rgb(c) == <<c[1], c[2], c[3]>>

\* C3: in every state reached by constructing the effect with any options and calling
\* any setters, gridSize is within [1, 20] and pixelSizeRatio within [1, 10] (2..40 and
\* 2..20 in halves).
C3_SizesInRange ==
    fx # <<>> =>
        /\ getGridSize(fx[1]) >= 2 /\ getGridSize(fx[1]) <= 40
        /\ getPixelSizeRatio(fx[1]) >= 2 /\ getPixelSizeRatio(fx[1]) <= 20

\* max(lo, min(hi, s)) by cases: below the range the lower bound, above it the upper
Clamped(lo, hi, s) == IF s < lo THEN lo ELSE IF s > hi THEN hi ELSE s

\* C4: after setGridSize(s) getGridSize() returns max(1, min(20, s)), and after
\* setPixelSizeRatio(s) getPixelSizeRatio() returns max(1, min(10, s)).
C4_SettersClamp ==
    /\ call.op = "setGridSize" => getGridSize(fx[1]) = Clamped(2, 40, call.size)
    /\ call.op = "setPixelSizeRatio" => getPixelSizeRatio(fx[1]) = Clamped(2, 20, call.ratio)

C4_Witness ==
    /\ call.op = "setGridSize"
    /\ call.size < 2
    /\ getGridSize(fx[1]) = 2

\* C5: the useCustomLightColor flag is true exactly when the most recently supplied
\* light colour (constructor option or setter argument) is non-null, getColorLight()
\* returns null exactly when the flag is false, and only a call that supplies a light
\* colour changes the flag.
C5_FlagFollowsLight ==
    /\ [](fx # <<>> =>
            /\ fx[1].useCustomLightColor = (lights[2] # Null)
            /\ (getColorLight(fx[1]) = Null) = ~fx[1].useCustomLightColor)
    /\ [][(fx # <<>> /\ fx'[1].useCustomLightColor # fx[1].useCustomLightColor)
            => call'.op \in {"setColorLight", "setColors"}]_vars

C5_Witness ==
    /\ fx # <<>>
    /\ lights = <<Grey, Null>>
    /\ ~fx[1].useCustomLightColor
    /\ fx[1].colorLight = Grey
    /\ getColorLight(fx[1]) = Null

\* the block colour of a fragment as the shader uses it: grayscaled when grayscaleOnly
BlockColor(u, f) ==
    LET l == 299 * (f.baseColor[1] \div 1000) + 587 * (f.baseColor[2] \div 1000)
             + 114 * (f.baseColor[3] \div 1000)
    IN  IF u.grayscaleOnly THEN <<l, l, l>> ELSE Rgb(f.baseColor)

Inverted(u, c) ==
    IF u.invertColor THEN <<ColorOne - c[1], ColorOne - c[2], ColorOne - c[3]>> ELSE c

\* a light colour was set and then cleared, and a lit pixel was rendered since
StaleLightLit ==
    /\ fx # <<>>
    /\ lights[1] # Null
    /\ lights[2] = Null
    /\ shot # <<>>
    /\ shot[1].ditherValue

\* C6 as stated: after setColorLight(c), c non-null, then setColorLight(null), the output
\* colour of every lit pixel is the (possibly grayscaled) block colour.
C6_LitIsBlockColor ==
    StaleLightLit => Rgb(shot[1].outputColor) = BlockColor(fx[1], shot[1].f)

\* C6 amended: after setColorLight(c), c non-null, then setColorLight(null), the output
\* colour of every lit pixel is the (possibly grayscaled) block colour, replaced per
\* channel by 1 - value when invertColor is set, and the stored c influences no output
\* pixel.
C6_LitIsBlockColorThenInverted ==
    /\ StaleLightLit =>
          Rgb(shot[1].outputColor) = Inverted(fx[1], BlockColor(fx[1], shot[1].f))
    /\ (fx # <<>> /\ lights[1] # Null /\ lights[2] = Null /\ shot # <<>>) =>
          \A c \in {Black, White, Navy, Orange} :
              mainImage([fx[1] EXCEPT !.colorLight = c], shot[1].f) = shot[1].outputColor

C6_Witness ==
    /\ StaleLightLit
    /\ call.op = "setColorLight"
    /\ fx[1].colorLight = Grey
    /\ Rgb(shot[1].outputColor) = Rgb(Orange)

\* C7: when ditheringEnabled is false the output pixel equals the input pixel, all four
\* channels, whatever the other uniforms are.
C7_DisabledPassthrough ==
    (shot # <<>> /\ ~fx[1].ditheringEnabled) => shot[1].outputColor = shot[1].f.inputColor

C7_Witness ==
    /\ shot # <<>>
    /\ ~fx[1].ditheringEnabled
    /\ fx[1].invertColor
    /\ shot[1].f.inputColor[4] < 2
    /\ shot[1].outputColor = Faint(Orange)

\* C8 as stated: any input pixel with alpha < 0.2, and any pixel whose sampled block
\* colour has alpha < 0.2, maps to (0,0,0,0).
C8_TransparentMapsToZero ==
    (shot # <<>> /\ (shot[1].f.inputColor[4] < 2 \/ shot[1].f.baseColor[4] < 2))
        => shot[1].outputColor = <<0, 0, 0, 0>>

\* C8 amended: when ditheringEnabled is true, any input pixel with alpha < 0.2, and any
\* pixel whose sampled block colour has alpha < 0.2, maps to (0,0,0,0).
C8_EnabledTransparentMapsToZero ==
    (shot # <<>> /\ fx[1].ditheringEnabled
       /\ (shot[1].f.inputColor[4] < 2 \/ shot[1].f.baseColor[4] < 2))
        => shot[1].outputColor = <<0, 0, 0, 0>>

C8_Witness ==
    /\ shot # <<>>
    /\ fx[1].ditheringEnabled
    /\ shot[1].f.inputColor = Opaque(Orange)
    /\ shot[1].f.baseColor = Faint(GreyAt(8160))
    /\ shot[1].outputColor = <<0, 0, 0, 0>>

\* the Bayer matrix, row = y, column = x
M == <<<<0, 8, 2, 10>>, <<12, 4, 14, 6>>, <<3, 11, 1, 9>>, <<15, 7, 13, 5>>>>

BlockLuminance(f) ==
    299 * (f.baseColor[1] \div 1000) + 587 * (f.baseColor[2] \div 1000)
    + 114 * (f.baseColor[3] \div 1000)

\* C9: in cell (cx, cy) getValue lights the pixel exactly when the luminance is strictly
\* greater than (M[cy][cx] + 0.5) / 16.
C9_BayerThreshold ==
    (shot # <<>> /\ shot[1].dithered) =>
        /\ shot[1].cell[1] \in 0 .. 3
        /\ shot[1].cell[2] \in 0 .. 3
        /\ shot[1].ditherValue =
             (32 * BlockLuminance(shot[1].f)
                > (2 * M[shot[1].cell[2] + 1][shot[1].cell[1] + 1] + 1) * ColorOne)

\* a luminance equal to the threshold 5.5/16 of cell (3, 3) is not lit
C9_Witness ==
    /\ shot # <<>>
    /\ shot[1].dithered
    /\ shot[1].cell = <<3, 3>>
    /\ 32 * BlockLuminance(shot[1].f) = 11 * ColorOne
    /\ ~shot[1].ditherValue

\* C10: for an enabled effect and a pixel that passes both alpha gates the output RGB is
\* colorLight (the block colour, grayscaled when grayscaleOnly, if no custom light colour
\* is set) when lit and colorDark otherwise, then 1 - value per channel when invertColor
\* is set; the output alpha is the block colour's alpha, never inverted.
C10_OutputColor ==
    (shot # <<>> /\ shot[1].dithered) =>
        LET u == fx[1]
            f == shot[1].f
            light == IF u.useCustomLightColor THEN u.colorLight ELSE BlockColor(u, f)
            chosen == IF shot[1].ditherValue THEN light ELSE u.colorDark
        IN  /\ Rgb(shot[1].outputColor) = Inverted(u, chosen)
            /\ shot[1].outputColor[4] = f.baseColor[4]

C10_Witness ==
    /\ shot # <<>>
    /\ shot[1].dithered
    /\ ~shot[1].ditherValue
    /\ fx[1].invertColor
    /\ shot[1].f.baseColor[4] = 5
    /\ shot[1].outputColor = <<ColorOne - Navy[1], ColorOne - Navy[2], ColorOne - Navy[3], 5>>


(***************************************************************************)
(* The view's lifecycle                                                    *)
(***************************************************************************)
framePending == rafs # {}
AnimateStep == frames' # frames

\* C11: once the view is unmounted every GPU resource acquired is released (textures,
\* model and placeholder geometry and materials, passes, renderer), also when the unmount
\* came before the model load or a texture load completed; and after the unmount no
\* resource is acquired and nothing is attached to the scene.
C11_ReleasedByCleanup ==
    /\ [](phase = "unmounted" => acquired \subseteq released)
    /\ [][phase = "unmounted" => (acquired' = acquired /\ scene' = scene)]_vars

\* C12: once the view is unmounted no listener registered at mount remains, no frame is
\* pending, and from then on no frame update runs and nothing a frame, pointer, click or
\* resize handler writes changes any more.
C12_StopsAtUnmount ==
    /\ [](phase = "unmounted" => listeners = {} /\ ~framePending)
    /\ [][phase = "unmounted" =>
            /\ phase' = "unmounted"
            /\ ~AnimateStep
            /\ UNCHANGED <<time, tiltStrength, cursorSmoothed, cursor, isDragging,
                           controlsEnabled, isShaking, shakeIntensity, state, gl, container,
                           fx, listeners, framePending>>]_vars
C12_Witness ==
    /\ phase = "unmounted"
    /\ frames = 2
    /\ isDragging
    /\ isShaking
    /\ load = "done"
    /\ model # <<>> /\ ~model[1].written

\* C13: a failed load installs the placeholder hand as the model node once (its
\* geometries and material built, its texture loads started, base scale INIT_SCALE); a
\* finished load is never started again; the model node, once assigned by either
\* callback, is never assigned again; and every frame update that runs with the
\* placeholder installed writes its scale, position and rotation.
C13_PlaceholderOnce ==
    /\ []((model # <<>> /\ model[1].kind = "placeholder") =>
            /\ load = "done"
            /\ baseScale = INIT_SCALE
            /\ "model" \in scene
            /\ PlaceholderResources \subseteq acquired
            /\ \A t \in TOWEL_TEXTURES : textures[t] # "none")
    /\ [][load = "done" => load' = "done"]_vars
    /\ [][model # <<>> =>
            /\ model' # <<>>
            /\ model'[1].kind = model[1].kind
            /\ (model[1].written => model'[1].written)
            /\ baseScale' = baseScale]_vars
    /\ [][(AnimateStep /\ model # <<>> /\ model[1].kind = "placeholder") =>
            /\ model'[1].written
            /\ model'[1].pose = Pose(sliders, INIT_SCALE, cursorSmoothed', tiltStrength',
                                     time', isShaking', shakeIntensity')]_vars
C13_Witness ==
    /\ model # <<>>
    /\ model[1].kind = "placeholder"
    /\ model[1].written
    /\ model[1].pose.scale = INIT_SCALE * 150
    /\ frames = 2
    /\ phase = "mounted"

\* C14: a frame update that runs while there is no model node leaves it absent and still
\* requests the next frame; a frame update that runs with a model node, the first one
\* after the node was set included, writes its scale, position and rotation; every frame
\* update requests the next frame.
C14_FrameWithoutModel ==
    [][AnimateStep =>
         /\ framePending'
         /\ (model = <<>> => model' = <<>>)
         /\ (model # <<>> =>
               /\ model'[1].written
               /\ model'[1].kind = model[1].kind
               /\ model'[1].pose = Pose(sliders, baseScale, cursorSmoothed', tiltStrength',
                                        time', isShaking', shakeIntensity'))]_vars
C14_Witness ==
    /\ frames = 2
    /\ model # <<>>
    /\ model[1].kind = "gltf"
    /\ model[1].written
    /\ model[1].pose.float = 2 * FrameMs
    /\ model[1].pose.scale = ((TARGET_SIZE * INIT_SCALE) \div 200) * INIT_SCALE

(***************************************************************************)
(* Who writes what                                                         *)
(***************************************************************************)
\* a listener or a panel binding ran
HandlerStep == used' # used /\ textures' = textures

\* C15 as stated: a pointer, click, resize or control-panel handler leaves the model
\* node's transform, the camera and the effect's configuration unchanged; only frame
\* updates write them.
C15_OnlyFramesWrite ==
    [][HandlerStep => UNCHANGED <<model, gl, fx>>]_vars

\* C15 amended: once the model node exists only frame updates write it; a handler that
\* records a pointer position, a drag, a click or a rotation, scale or position control
\* writes neither the model node nor the camera nor the effect; the camera aspect and the
\* effect's uniforms are written by the mount and by the resize and dither handlers, never
\* by a frame update.
C15_HandlersLeaveModel ==
    /\ [][(~AnimateStep /\ model # <<>>) => model' = model]_vars
    /\ [][(HandlerStep /\ (cursor' # cursor \/ isDragging' # isDragging \/ ClickStep
                            \/ sliders' # sliders)) => UNCHANGED <<model, gl, fx>>]_vars
    /\ [][(fx' # fx \/ gl' # gl) => (phase = "init" \/ (HandlerStep /\ ~AnimateStep))]_vars
C15_Witness ==
    /\ sliders.scale = 150
    /\ model # <<>>
    /\ model[1].written
    /\ model[1].pose.scale = baseScale * INIT_SCALE
    /\ fx[1].gridSize = 3
    /\ frames = 2

\* the controls' last values, as the React state keeps them
LastControls ==
    [rotation  |-> [a \in {"x", "y", "z"} |-> Rad(state.rotationDeg[a])],
     scale     |-> state.scale,
     positionX |-> state.positionX,
     positionY |-> state.positionY]
\* the cursor a mouse move leaves, whatever the cursor was
CursorValues ==
    {<<clamp1((CursorOne * (2 * e[1] - w[1])) \div w[1]),
       clamp1((CursorOne * (2 * e[2] - w[2])) \div w[2])>> : e \in UNION {Pointers(v) : v \in Sizes},
                                                          w \in Sizes}

\* C16: a handler only records (the smoothed cursor, the tilt strength and the model node
\* are left to the frame update); what it records is the event's own value, whatever was
\* recorded before; and the transform a frame update writes is the one computed from the
\* last value of every control, the last cursor, the drag flag and the shake as they are
\* when the frame runs, so a changed rotation, scale or position control shows in the
\* very next frame update that has a model.
C16_LastValueWins ==
    /\ [](sliders = LastControls)
    /\ [][HandlerStep => UNCHANGED <<model, cursorSmoothed, tiltStrength, time>>]_vars
    /\ [][cursor' # cursor => (HandlerStep /\ cursor' \in CursorValues)]_vars
    /\ [][(AnimateStep /\ model # <<>>) =>
            model'[1].pose = Pose(LastControls, baseScale,
                                  cursorStep(cursorSmoothed, cursor, isDragging),
                                  tiltStep(tiltStrength, isDragging), time + FrameMs,
                                  shakeStep(isShaking, shakeIntensity).isShaking,
                                  shakeStep(isShaking, shakeIntensity).intensity)]_vars
C16_Witness ==
    /\ used.inputs = 2
    /\ state.scale = 200
    /\ state.rotationDeg.x = 90
    /\ model # <<>>
    /\ model[1].pose.scale = baseScale * 200
    /\ model[1].pose.rotation.x = Rad(90) * 10000
    /\ model[1].pose.float = time
    /\ frames = 2

\* C17: while the view is mounted (after the mount and after every resize handled) the
\* effect's resolution is the container's width and height, and so are the camera's
\* aspect (width / height), the renderer's size and the composer's size: a frame rendered
\* after a size change pixelates against the new resolution.
C17_ResolutionFollowsContainer ==
    phase = "mounted" =>
        /\ fx # <<>>
        /\ fx[1].resolution = container
        /\ gl[1].aspect = container
        /\ gl[1].rendererSize = container
        /\ gl[1].composerSize = container
C17_Witness ==
    /\ phase = "mounted"
    /\ used.inputs = 2
    /\ container = <<16, 8>>
    /\ fx[1].resolution = <<16, 8>>
    /\ fx[1].gridSize = 3
    /\ call.op = "setResolution"
    /\ frames = 2

(***************************************************************************)
(* The numbers of a frame update                                           *)
(***************************************************************************)
TiltTarget == IF isDragging THEN 4000 ELSE 1200

\* C18 as stated: a frame update moves the tilt strength toward its target (0.4 while
\* dragging, 0.12 otherwise) by a fraction of the gap, and the fraction of a dragging
\* frame is larger than the fraction of an idle frame (which is 0.12).
C18_DragFractionLarger ==
    [][AnimateStep =>
         /\ (~isDragging =>
               tiltStrength' = tiltStrength + ((TiltTarget - tiltStrength) * 12) \div 100)
         /\ (isDragging =>
               \E f \in 13 .. 100 :
                  tiltStrength' = tiltStrength + ((TiltTarget - tiltStrength) * f) \div 100)]_vars

\* C18 amended: a frame update moves the tilt strength toward its target (0.4 while
\* dragging, 0.12 otherwise) by 0.12 of the gap, dragging or not; no other step changes
\* it, and it stays between the two targets.
C18_TiltStrengthLerp ==
    /\ [][AnimateStep =>
            tiltStrength' = tiltStrength + ((TiltTarget - tiltStrength) * 12) \div 100]_vars
    /\ [][~AnimateStep => tiltStrength' = tiltStrength]_vars
    /\ [](tiltStrength >= 1200 /\ tiltStrength <= 4000)
C18_Witness ==
    /\ frames = 2
    /\ isDragging
    /\ tiltStrength = 1536
    /\ model # <<>>
    /\ model[1].pose.rotation.y = INIT_ROT.y * 10000 + cursorSmoothed[1] * 1536
    /\ cursorSmoothed[1] = 180

\* C19: between any two steps the shake intensity is within [0, 1]; it is 0 whenever the
\* shaking flag is false and at least 0.01 whenever the flag is true; the React state's
\* flag agrees with the ref.
C19_ShakeRange ==
    /\ shakeIntensity >= 0
    /\ shakeIntensity <= 10000000
    /\ (~isShaking => shakeIntensity = 0)
    /\ (isShaking => shakeIntensity >= 100000)
C19_Witness ==
    /\ isShaking
    /\ shakeAge = 55
    /\ shakeIntensity < 110000
    /\ used.clicks = 2

\* C20: every frame update adds 16 ms to the elapsed time, with or without a model node;
\* no other step changes it; after k frame updates it is 16 * k.
C20_FixedTimeStep ==
    /\ [](time = 16 * frames)
    /\ [][AnimateStep => (frames' = frames + 1 /\ time' = time + 16)]_vars
    /\ [][~AnimateStep => time' = time]_vars
C20_Witness ==
    /\ frames = 60
    /\ time = 960
    /\ model = <<>>
    /\ load = "pending"

(***************************************************************************)
(* The material's maps                                                     *)
(***************************************************************************)
HasMap(m, t) ==
    CASE t = "color"     -> m.map
      [] t = "normal"    -> m.normalMap
      [] t = "roughness" -> m.roughnessMap
      [] t = "ao"        -> m.aoMap
Failed == {t \in TOWEL_TEXTURES : textures[t] = "failed"}

\* C21: whatever subset of the four texture loads has succeeded so far and in whatever
\* order the callbacks came, the material has exactly the maps whose load succeeded; a
\* load still pending can always complete, whatever happened to the others; a callback
\* changes the outcome of its own texture only; and a failure logs one warning and
\* leaves the material as it was.
C21_MapsAreLoadedOnes ==
    /\ [](material # <<>> =>
            \A t \in TOWEL_TEXTURES : HasMap(material[1], t) <=> textures[t] = "loaded")
    /\ []({warnings[i] : i \in 1 .. Len(warnings)} = Failed
            /\ Len(warnings) = Cardinality(Failed))
    /\ [](\A t \in TOWEL_TEXTURES :
            textures[t] = "pending" =>
                ENABLED (textureLoaded(t) /\ UNCHANGED <<used, textureRest>>))
    /\ [][\A t, u \in TOWEL_TEXTURES :
            (material # <<>> /\ textures'[t] # textures[t] /\ u # t) =>
                /\ textures'[u] = textures[u]
                /\ HasMap(material'[1], u) = HasMap(material[1], u)]_vars
    /\ [][warnings' # warnings =>
            (material' = material /\ acquired' = acquired
               /\ Len(warnings') = Len(warnings) + 1)]_vars
C21_Witness ==
    /\ textures = [color |-> "loaded", normal |-> "failed", roughness |-> "pending",
                   ao |-> "loaded"]
    /\ warnings = <<"normal">>
    /\ material[1].map /\ material[1].aoMap
    /\ ~material[1].normalMap /\ ~material[1].roughnessMap

(***************************************************************************)
(* The controls panel                                                      *)
(***************************************************************************)
\* C22: the panel starts expanded; every click of the toggle button flips it (after n
\* clicks it is expanded exactly when n is even), the Tweakpane panel follows, and the
\* button's label is 'Collapse controls' exactly when the panel is expanded and 'Expand
\* controls' exactly when it is collapsed.
C22_ToggleFlips ==
    /\ [](panel.expanded <=> panel.toggles % 2 = 0)
    /\ [](phase = "init" => panel.expanded)
    /\ [](panel.paneExpanded = panel.expanded)
    /\ []((ariaLabel(panel.expanded) = "Collapse controls" <=> panel.expanded)
            /\ (ariaLabel(panel.expanded) = "Expand controls" <=> ~panel.expanded))
    /\ [][panel'.toggles # panel.toggles =>
            (panel'.toggles = panel.toggles + 1 /\ panel'.expanded = ~panel.expanded)]_vars
C22_Witness ==
    /\ panel.toggles = 3
    /\ ~panel.expanded
    /\ ariaLabel(panel.expanded) = "Expand controls"
    /\ phase = "mounted"

\* C26: however toggle clicks and timer expiries interleave, the bar's bottom is rounded
\* only while the panel is collapsed; at most one collapse timer is pending, the one the
\* ref names, and none while the panel is expanded or after the unmount; so a timer of
\* an earlier collapse never rounds the bar of a panel expanded again.
C26_OneCollapseTimer ==
    /\ [](panel.barRoundedBottom => ~panel.expanded)
    /\ [](Cardinality(panel.timers) <= 1)
    /\ [](panel.timers \subseteq {panel.collapseTimeoutRef})
    /\ [](panel.expanded => panel.timers = {})
    /\ [](phase = "unmounted" => panel.timers = {})
    /\ [][(panel.expanded /\ panel'.expanded) => ~panel'.barRoundedBottom]_vars
C26_Witness ==
    /\ panel.toggles = 4
    /\ panel.expanded
    /\ ~panel.barRoundedBottom
    /\ panel.timerIds = 2
    /\ panel.timers = {}
    /\ phase = "mounted"

\* C25: after any sequence of panel changes ('custom light', 'light', 'dark') the
\* effect's useCustomLightColor flag equals the value of the panel's 'custom light'
\* checkbox.
C25_FlagIsCheckbox ==
    (fx # <<>> /\ params # <<>>) => fx[1].useCustomLightColor = params[1].useCustomLight

(***************************************************************************)
(* The light colour at the mount                                           *)
(***************************************************************************)
\* C23: when HandModel is mounted with the ditherColorLight prop omitted, the effect is
\* created without a custom light colour (its useCustomLightColor flag is off), so lit
\* pixels use the scene colour.
C23_OmittedLightIsSceneColor ==
    [][(phase = "init" /\ phase' = "mounted" /\ props.ditherColorLight = Undef)
          => (fx' # <<>> /\ ~fx'[1].useCustomLightColor)]_vars

(***************************************************************************)
(* The proximity-hover variant                                             *)
(***************************************************************************)
\* C24: in the proximity-hover variant, after every frame isHovered is true exactly when
\* the smoothed pointer proximity is below 0.8; once the pointer has moved away and the
\* smoothed proximity is 0.8 or more again, isHovered is false again.
C24_HoveredIffNear ==
    hover.isHovered <=> hover.mouseProximitySmoothed < NearProximity

(***************************************************************************)
(* Dragging and the orbit controls                                         *)
(***************************************************************************)
\* C27: in every state of a mounted view the orbit controls are enabled exactly when
\* isDragging is false; a mouse down and a mouse up change the two together, whatever
\* the sequence of mouse downs and mouse ups.
C27_ControlsIffNotDragging ==
    /\ [](phase = "mounted" => (controlsEnabled <=> ~isDragging))
    /\ [][(isDragging' # isDragging \/ (phase = "mounted" /\ controlsEnabled' # controlsEnabled))
            => (controlsEnabled' <=> ~isDragging')]_vars
C27_Witness ==
    /\ phase = "mounted"
    /\ ~isDragging
    /\ controlsEnabled
    /\ tiltStrength = 1536
    /\ used.inputs = 2

(***************************************************************************)
(* The frame callbacks                                                     *)
(***************************************************************************)
\* C28: while the view is mounted exactly one frame callback is pending between two
\* frame updates, and frameId names it: each frame update consumes the pending callback
\* and schedules exactly one successor; after the unmount none is pending.
C28_OneFramePending ==
    /\ [](phase = "mounted" => (rafs = {frameId} /\ Cardinality(rafs) = 1))
    /\ [](phase = "unmounted" => rafs = {})
    /\ [](phase = "init" => rafs = {})
    /\ [][AnimateStep => (/\ Cardinality(rafs') = 1
                          /\ rafs' = {frameId'}
                          /\ rafs' \cap rafs = {})]_vars
C28_Witness ==
    /\ phase = "unmounted"
    /\ frames = 2
    /\ frameId = 2
    /\ rafs = {}

(***************************************************************************)
(* The shader: grayscaleOnly and the dither cell                           *)
(***************************************************************************)
\* C29: the lit/dark decision of a pixel does not depend on grayscaleOnly (the luminance
\* is that of the sampled block colour, before grayscaling): the same fragment under the
\* same uniforms with grayscaleOnly flipped gets the same decision; and with a custom
\* light colour set it gets the same output pixel.
C29_GrayscaleLeavesDecision ==
    shot # <<>> =>
        LET u == fx[1]
            flipped == Invocation([u EXCEPT !.grayscaleOnly = ~@], shot[1].f)
        IN  /\ shot[1] = Invocation(u, shot[1].f)
            /\ flipped.dithered = shot[1].dithered
            /\ flipped.ditherValue = shot[1].ditherValue
            /\ u.useCustomLightColor => flipped.outputColor = shot[1].outputColor
C29_Witness ==
    /\ shot # <<>>
    /\ fx[1].useCustomLightColor
    /\ fx[1].grayscaleOnly
    /\ ~fx[1].invertColor
    /\ shot[1].f.baseColor = Opaque(Orange)
    /\ shot[1].ditherValue
    /\ shot[1].outputColor = <<fx[1].colorLight[1], fx[1].colorLight[2], fx[1].colorLight[3], 10>>

\* C30: the dither cell of a block is a pair in {0..3} x {0..3}; it depends only on the
\* block index (i, j) and on pixelSizeRatio, not on gridSize; for an integer ratio r it
\* is ((i*r) mod 4, (j*r) mod 4), so with r = 1 the next block to the right or below
\* has the next column or row of the matrix, and with r a multiple of 4 every block has
\* cell (0,0) and the threshold 0.03125.
C30_CellOfBlock ==
    shot # <<>> =>
        LET u == fx[1]
            pos == pixelatedCoord(u, shot[1].f.uv)
            i == pos[1] \div pixelSize(u)
            j == pos[2] \div pixelSize(u)
            cell == shot[1].cell
        IN  /\ cell \in (0 .. 3) \X (0 .. 3)
            /\ pos = <<i * pixelSize(u), j * pixelSize(u)>>
            /\ \A g \in {2, 3, 4, 8} :
                  pixel(<<i * g * u.pixelSizeRatio, j * g * u.pixelSizeRatio>>, g) = cell
            /\ u.pixelSizeRatio % 2 = 0 =>
                  cell = <<(i * (u.pixelSizeRatio \div 2)) % 4,
                           (j * (u.pixelSizeRatio \div 2)) % 4>>
            /\ u.pixelSizeRatio = 2 =>
                  /\ pixel(<<(i + 1) * pixelSize(u), j * pixelSize(u)>>, u.gridSize)
                       = <<(cell[1] + 1) % 4, cell[2]>>
                  /\ pixel(<<i * pixelSize(u), (j + 1) * pixelSize(u)>>, u.gridSize)
                       = <<cell[1], (cell[2] + 1) % 4>>
            /\ u.pixelSizeRatio % 8 = 0 =>
                  /\ cell = <<0, 0>>
                  /\ 32 * threshold(bayerValue(cell[1], cell[2])) = ColorOne
                  /\ shot[1].dithered =>
                        (shot[1].ditherValue
                           <=> 32 * luminance(shot[1].f.baseColor) > ColorOne)
C30_Witness ==
    /\ shot # <<>>
    /\ shot[1].dithered
    /\ fx[1].pixelSizeRatio = 2
    /\ fx[1].gridSize = 3
    /\ fx[1].resolution = <<16, 8>>
    /\ pixelatedCoord(fx[1], shot[1].f.uv) = <<3 * 6, 2 * 6>>
    /\ shot[1].cell = <<3, 2>>
====
